---- MODULE Spec2Model ----
(***************************************************************************)
(* A model of package uggsec (github.com/rendicott/uggsec): an encrypted   *)
(* file whose AES key is resolved on every call from the OS keyring or     *)
(* from an environment variable.                                           *)
(*                                                                         *)
(* Go strings and byte slices are sequences of byte values 0..255.  Names  *)
(* (service, user, env-var name, filename) and error texts are TLA+        *)
(* strings, so that strings.Contains is computed on the real text.         *)
(***************************************************************************)
EXTENDS Integers, Sequences, FiniteSets, TLC

VARIABLES
    platform,      \* GOOS of the build: decides the text of file errors
    krMode,        \* how the OS keyring answers: "ok", "setfails", "down"
    keyringStore,  \* the OS keyring: slot -> [set, secret]
    env,           \* the process environment: name -> value (<<>> is unset)
    fs,            \* the filesystem: filename -> [kind, data]
    vault,         \* the caller's handle, with the error returned beside it
    wrote,         \* what the last successful Write put in the file
    last,          \* the last call: operation, argument, results, I/O calls
    crashed,       \* the process died of an unrecovered panic
    procs,         \* concurrent processes: where each is within its call
    race           \* what the concurrent calls did last to file and keyring

vars == <<platform, krMode, keyringStore, env, fs, vault, wrote, last, crashed,
          procs, race>>

(***************************************************************************)
(* Bytes and text                                                          *)
(***************************************************************************)
Digits == "0123456789"
Upper == "ABCDEFGHIJKLMNOPQRSTUVWXYZ"
Lower == "abcdefghijklmnopqrstuvwxyz"

CharAt(s, i) == SubSeq(s, i, i)

HasChar(s, c) == \E i \in 1..Len(s) : CharAt(s, i) = c

IndexOf(s, c) == CHOOSE i \in 1..Len(s) : CharAt(s, i) = c

\* The byte of a one-character string (ASCII).
ByteOf(c) ==
    IF HasChar(Digits, c) THEN 47 + IndexOf(Digits, c)
    ELSE IF HasChar(Upper, c) THEN 64 + IndexOf(Upper, c)
    ELSE IF HasChar(Lower, c) THEN 96 + IndexOf(Lower, c)
    ELSE IF c = "+" THEN 43
    ELSE IF c = "/" THEN 47
    ELSE IF c = "=" THEN 61
    ELSE 33

\* []byte(s) of a string literal.
Bytes(s) == [i \in 1..Len(s) |-> ByteOf(CharAt(s, i))]

\* strings.Contains
Contains(s, sub) ==
    \E i \in 1..(Len(s) - Len(sub) + 1) : SubSeq(s, i, i + Len(sub) - 1) = sub

Min(a, b) == IF a < b THEN a ELSE b

RECURSIVE XorBits(_, _, _)
XorBits(a, b, n) ==
    IF n = 0 THEN 0
    ELSE (((a % 2) + (b % 2)) % 2) + (2 * XorBits(a \div 2, b \div 2, n - 1))

\* a ^ b on bytes
Xor(a, b) == XorBits(a, b, 8)

(***************************************************************************)
(* Package variables                                                       *)
(***************************************************************************)
\* the fixed initialization vector
bytes == <<35, 46, 57, 24, 85, 35, 24, 74, 87, 35, 88, 98, 66, 32, 14, 5>>

keySize == 32

letterRunes == "abcdefghijklmnopqrstuvwxyzABCDEFGHIJKLMNOPQRSTUVWXYZ123456789"

\* []rune(letterRunes); every rune is one ASCII byte
letterBytes == Bytes(letterRunes)

Nil == "nil"

(***************************************************************************)
(* encoding/base64, StdEncoding                                            *)
(***************************************************************************)
encodeStd == "ABCDEFGHIJKLMNOPQRSTUVWXYZabcdefghijklmnopqrstuvwxyz0123456789+/"

PadChar == 61

\* the encoding's alphabet as bytes, and its inverse (decodeMap)
encodeMap == [v \in 0..63 |-> ByteOf(CharAt(encodeStd, v + 1))]

B64Char(v) == encodeMap[v]

B64Codes == {encodeMap[v] : v \in 0..63}

decodeMap == [c \in B64Codes |-> CHOOSE v \in 0..63 : encodeMap[v] = c]

B64Val(c) == decodeMap[c]

RECURSIVE EncodeToString(_)
EncodeToString(b) ==
    IF Len(b) = 0 THEN <<>>
    ELSE IF Len(b) = 1 THEN
        <<B64Char(b[1] \div 4), B64Char((b[1] % 4) * 16), PadChar, PadChar>>
    ELSE IF Len(b) = 2 THEN
        <<B64Char(b[1] \div 4),
          B64Char(((b[1] % 4) * 16) + (b[2] \div 16)),
          B64Char((b[2] % 16) * 4), PadChar>>
    ELSE
        <<B64Char(b[1] \div 4),
          B64Char(((b[1] % 4) * 16) + (b[2] \div 16)),
          B64Char(((b[2] % 16) * 4) + (b[3] \div 64)),
          B64Char(b[3] % 64)>> \o EncodeToString(SubSeq(b, 4, Len(b)))

\* DecodeString skips carriage returns and line feeds.
RECURSIVE StripNewlines(_)
StripNewlines(s) ==
    IF Len(s) = 0 THEN <<>>
    ELSE IF s[1] \in {10, 13} THEN StripNewlines(Tail(s))
    ELSE <<s[1]>> \o StripNewlines(Tail(s))

\* Whether DecodeString accepts t (already stripped of newlines): quanta of
\* four characters, padding only at the end of the last one.  Trailing bits
\* of a padded quantum are not checked (the encoding is not Strict).
WellFormed(t) ==
    /\ Len(t) % 4 = 0
    /\ \A i \in 1..Len(t) :
          \/ t[i] \in B64Codes
          \/ /\ t[i] = PadChar
             /\ i > Len(t) - 2
             /\ \A j \in i..Len(t) : t[j] = PadChar

RECURSIVE DecodeQuanta(_)
DecodeQuanta(t) ==
    IF Len(t) = 0 THEN <<>>
    ELSE LET a == B64Val(t[1])
             b == B64Val(t[2])
         IN  IF t[3] = PadChar THEN <<(a * 4) + (b \div 16)>>
             ELSE LET c == B64Val(t[3])
                  IN  IF t[4] = PadChar
                      THEN <<(a * 4) + (b \div 16), ((b % 16) * 16) + (c \div 4)>>
                      ELSE <<(a * 4) + (b \div 16), ((b % 16) * 16) + (c \div 4),
                             ((c % 4) * 64) + B64Val(t[4])>>
                           \o DecodeQuanta(SubSeq(t, 5, Len(t)))

\* base64.StdEncoding.DecodeString: [data, err]
DecodeString(s) ==
    LET t == StripNewlines(s)
    IN  IF WellFormed(t) THEN [data |-> DecodeQuanta(t), err |-> Nil]
        ELSE [data |-> <<>>, err |-> "illegal base64 data"]

encode(b) == EncodeToString(b)

\* decode panics on a decoding error: [data, panic]
decode(s) ==
    LET r == DecodeString(s)
    IN  [data |-> r.data, panic |-> r.err # Nil]

(***************************************************************************)
(* crypto/aes and crypto/cipher.  The block transform itself is outside    *)
(* the repository: AESBlock stands for it as some fixed keyed function     *)
(* from 16-byte blocks to 16-byte blocks.  The key-size rule of NewCipher  *)
(* and the feedback structure of CFB are those of the library.             *)
(***************************************************************************)
BlockSize == Len(bytes)

AESKeySizes == {16, 24, 32}

\* aes.NewCipher: [key, err]
NewCipher(key) ==
    IF Len(key) \in AESKeySizes THEN [key |-> key, err |-> Nil]
    ELSE [key |-> <<>>,
          err |-> "crypto/aes: invalid key size " \o ToString(Len(key))]

\* block.Encrypt(dst, src)
AESBlock(key, src) ==
    [i \in 1..BlockSize |->
        ((src[i] * 7) + (src[(i % BlockSize) + 1] * 3)
         + key[((i - 1) % Len(key)) + 1]
         + (key[((i * 5) % Len(key)) + 1] * 11) + i) % 256]

\* cfb.XORKeyStream(dst, src) from feedback register next: the key stream of
\* a block is the encryption of the previous ciphertext block.
RECURSIVE XORKeyStream(_, _, _, _)
XORKeyStream(key, next, src, decrypt) ==
    IF Len(src) = 0 THEN <<>>
    ELSE LET out == AESBlock(key, next)
             n == Min(BlockSize, Len(src))
             dst == [i \in 1..n |-> Xor(src[i], out[i])]
             fed == IF decrypt THEN SubSeq(src, 1, n) ELSE dst
             next2 == [i \in 1..BlockSize |-> IF i <= n THEN fed[i] ELSE next[i]]
         IN  dst \o XORKeyStream(key, next2, SubSeq(src, n + 1, Len(src)), decrypt)

\* encrypt(text, password): [val, err]
\* encrypt under an initialization vector that varies from call to call
encryptVaryingIV(text, password) ==
    LET block == NewCipher(password)
        iv == [bytes EXCEPT ![1] = (bytes[1] + Len(last.calls)) % 256]
    IN  IF block.err # Nil THEN [val |-> <<>>, err |-> block.err]
        ELSE [val |-> encode(XORKeyStream(block.key, iv, text, FALSE)),
              err |-> Nil]

encrypt(text, password) ==
    LET block == NewCipher(password)
    IN  IF block.err # Nil THEN [val |-> <<>>, err |-> block.err]
        ELSE [val |-> encode(XORKeyStream(block.key, bytes, text, FALSE)),
              err |-> Nil]

\* decrypt built on NewCFBEncrypter instead of NewCFBDecrypter
decryptWithEncrypter(encrypted, password) ==
    LET block == NewCipher(password)
        cipherText == decode(encrypted)
    IN  IF block.err # Nil
        THEN [val |-> <<>>, err |-> block.err, panic |-> FALSE]
        ELSE IF cipherText.panic
        THEN [val |-> <<>>, err |-> Nil, panic |-> TRUE]
        ELSE [val |-> XORKeyStream(block.key, bytes, cipherText.data, FALSE),
              err |-> Nil, panic |-> FALSE]

\* decrypt(encrypted, password): [val, err, panic]
decrypt(encrypted, password) ==
    LET block == NewCipher(password)
        cipherText == decode(encrypted)
    IN  IF block.err # Nil
        THEN [val |-> <<>>, err |-> block.err, panic |-> FALSE]
        ELSE IF cipherText.panic
        THEN [val |-> <<>>, err |-> Nil, panic |-> TRUE]
        ELSE [val |-> XORKeyStream(block.key, bytes, cipherText.data, TRUE),
              err |-> Nil, panic |-> FALSE]

(***************************************************************************)
(* Key generation                                                          *)
(***************************************************************************)
\* The seeds the generator may be started from.
MaxSeed == 1

\* rand.Intn(n), the i-th draw after rand.Seed(seed)
Intn(seed, i, n) == ((seed * 17) + (i * 7) + ((i * i) * seed)) % n

\* randStringRunes(n) after rand.Seed(seed)
randStringRunes(n, seed) ==
    [i \in 1..n |-> letterBytes[Intn(seed, i, Len(letterBytes)) + 1]]

\* NewVaultPassword()
NewVaultPassword(seed) == randStringRunes(keySize, seed)

(***************************************************************************)
(* The collaborators: keyring, environment, filesystem                     *)
(***************************************************************************)
ErrNotFound == "secret not found in keyring"

ErrBackend == "The name org.freedesktop.secrets was not provided by any .service files"

NoSecret == [set |-> FALSE, secret |-> <<>>]

\* keyring.Get(service, user): [val, err]
KeyringGet(kr, service, user) ==
    IF krMode = "down" THEN [val |-> <<>>, err |-> ErrBackend]
    ELSE IF ~kr[<<service, user>>].set THEN [val |-> <<>>, err |-> ErrNotFound]
    ELSE [val |-> kr[<<service, user>>].secret, err |-> Nil]

\* keyring.Set(service, user, password): [kr, err]
KeyringSet(kr, service, user, password) ==
    IF krMode # "ok" THEN [kr |-> kr, err |-> ErrBackend]
    ELSE [kr |-> [kr EXCEPT ![<<service, user>>] =
                        [set |-> TRUE, secret |-> password]],
          err |-> Nil]

\* os.Getenv(name): an unset variable reads as the empty string
Getenv(name) == IF name \in DOMAIN env THEN env[name] ELSE <<>>

NoFile == [kind |-> "absent", data |-> <<>>]

\* the *PathError text of a failed open
OpenError(name, kind) ==
    "open " \o name \o ": " \o
        (IF kind = "absent"
         THEN IF platform = "windows"
              THEN "The system cannot find the file specified."
              ELSE "no such file or directory"
         ELSE IF platform = "windows"
              THEN "Access is denied."
              ELSE "permission denied")

\* ioutil.ReadFile(name): [data, err]
ReadFile(fsys, name) ==
    IF fsys[name].kind = "file" THEN [data |-> fsys[name].data, err |-> Nil]
    ELSE [data |-> <<>>, err |-> OpenError(name, fsys[name].kind)]

\* the open of a file without O_TRUNC: what the file held stays
OpenNoTrunc(fsys, name) ==
    IF fsys[name].kind = "denied"
    THEN [fs |-> fsys, err |-> OpenError(name, "denied")]
    ELSE [fs |-> [fsys EXCEPT ![name] =
                        [kind |-> "file", data |-> fsys[name].data]],
          err |-> Nil]

\* ioutil.WriteFile's first step,
\* os.OpenFile(name, O_WRONLY|O_CREATE|O_TRUNC, 0600): [fs, err]
OpenTrunc(fsys, name) ==
    IF fsys[name].kind = "denied"
    THEN [fs |-> fsys, err |-> OpenError(name, "denied")]
    ELSE [fs |-> [fsys EXCEPT ![name] = [kind |-> "file", data |-> <<>>]],
          err |-> Nil]

\* ioutil.WriteFile's second step, f.Write(data) on the descriptor opened at
\* offset 0: the bytes the file holds beyond Len(data) stay
WriteAt(fsys, name, data) ==
    [fsys EXCEPT ![name] =
        [kind |-> "file",
         data |-> data \o SubSeq(fsys[name].data, Len(data) + 1,
                                 Len(fsys[name].data))]]

\* WriteFile that opens the file for appending instead of truncating it
WriteFileAppend(fsys, name, data) ==
    IF fsys[name].kind = "denied"
    THEN [fs |-> fsys, err |-> OpenError(name, "denied")]
    ELSE [fs |-> [fsys EXCEPT ![name] =
                        [kind |-> "file", data |-> fsys[name].data \o data]],
          err |-> Nil]

\* ioutil.WriteFile(name, data, 0600): creates or truncates: [fs, err]
WriteFile(fsys, name, data) ==
    IF fsys[name].kind = "denied"
    THEN [fs |-> fsys, err |-> OpenError(name, "denied")]
    ELSE [fs |-> [fsys EXCEPT ![name] = [kind |-> "file", data |-> data]],
          err |-> Nil]

(***************************************************************************)
(* Vault and its methods.  Each takes the keyring and the filesystem it    *)
(* works on and returns its results with the I/O calls it made.            *)
(***************************************************************************)
\* the Vault struct as InitKeyring first builds it
NewVault(service, user, filename, passwordEnvVar) ==
    [service |-> service, user |-> user, filename |-> filename,
     passwordEnvVar |-> passwordEnvVar, keyring |-> FALSE]

\* getPasswordEnv without its test for an empty value
getPasswordEnvUnchecked(v) ==
    [password |-> Getenv(v.passwordEnvVar), err |-> Nil, calls |-> <<"Getenv">>]

\* v.getPasswordEnv(): [password, err, calls]
getPasswordEnv(v) ==
    LET password == Getenv(v.passwordEnvVar)
    IN  [password |-> password,
         err |-> IF password = <<>>
                 THEN "no password found in " \o v.passwordEnvVar \o " env var"
                 ELSE Nil,
         calls |-> <<"Getenv">>]

\* v.getPasswordKeyring(): [password, err, calls]
getPasswordKeyring(v, kr) ==
    LET g == KeyringGet(kr, v.service, v.user)
    IN  [password |-> g.val, err |-> g.err, calls |-> <<"keyring.Get">>]

\* getPassword that does not look at v.keyring
getPasswordFromEnvOnly(v, kr) == getPasswordEnv(v)

\* v.getPassword()
getPassword(v, kr) ==
    IF v.keyring THEN getPasswordKeyring(v, kr) ELSE getPasswordEnv(v)

\* Write that does not look at encrypt's error
WriteIgnoringCipherError(v, contents, kr, fsys) ==
    LET pw == getPassword(v, kr)
        encrypted == encrypt(contents, pw.password)
        w == WriteFile(fsys, v.filename, encrypted.val)
    IN  IF pw.err # Nil
        THEN [err |-> pw.err, fs |-> fsys, calls |-> pw.calls, key |-> <<>>]
        ELSE [err |-> w.err, fs |-> w.fs,
              calls |-> pw.calls \o <<"WriteFile">>, key |-> pw.password]

\* Write that creates or truncates the file before it resolves the key
WriteTruncatingFirst(v, contents, kr, fsys) ==
    LET pw == getPassword(v, kr)
        encrypted == encrypt(contents, pw.password)
        t == WriteFile(fsys, v.filename, <<>>)
        w == WriteFile(fsys, v.filename, encrypted.val)
    IN  IF pw.err # Nil
        THEN [err |-> pw.err, fs |-> t.fs, calls |-> pw.calls, key |-> <<>>]
        ELSE IF encrypted.err # Nil
        THEN [err |-> encrypted.err, fs |-> t.fs, calls |-> pw.calls,
              key |-> <<>>]
        ELSE [err |-> w.err, fs |-> w.fs,
              calls |-> pw.calls \o <<"WriteFile">>, key |-> pw.password]

\* v.Write(contents): [err, fs, calls, key]
Write(v, contents, kr, fsys) ==
    LET pw == getPassword(v, kr)
        encrypted == encrypt(contents, pw.password)
        w == WriteFile(fsys, v.filename, encrypted.val)
    IN  IF pw.err # Nil
        THEN [err |-> pw.err, fs |-> fsys, calls |-> pw.calls, key |-> <<>>]
        ELSE IF encrypted.err # Nil
        THEN [err |-> encrypted.err, fs |-> fsys, calls |-> pw.calls,
              key |-> <<>>]
        ELSE [err |-> w.err, fs |-> w.fs,
              calls |-> pw.calls \o <<"WriteFile">>, key |-> pw.password]

\* loadFromDisk that decrypts with the key kept from the last Write
loadFromDiskCachedKey(v, kr, fsys) ==
    LET f == ReadFile(fsys, v.filename)
        pw == getPassword(v, kr)
        d == decrypt(f.data, IF wrote.set THEN wrote.key ELSE pw.password)
    IN  IF f.err # Nil
        THEN [contents |-> <<>>, err |-> f.err, panic |-> FALSE,
              calls |-> <<"ReadFile">>]
        ELSE IF pw.err # Nil
        THEN [contents |-> <<>>, err |-> pw.err, panic |-> FALSE,
              calls |-> <<"ReadFile">> \o pw.calls]
        ELSE [contents |-> d.val, err |-> d.err, panic |-> d.panic,
              calls |-> <<"ReadFile">> \o pw.calls]

\* v.loadFromDisk(): [contents, err, panic, calls]
loadFromDisk(v, kr, fsys) ==
    LET f == ReadFile(fsys, v.filename)
        pw == getPassword(v, kr)
        d == decrypt(f.data, pw.password)
    IN  IF f.err # Nil
        THEN [contents |-> <<>>, err |-> f.err, panic |-> FALSE,
              calls |-> <<"ReadFile">>]
        ELSE IF pw.err # Nil
        THEN [contents |-> <<>>, err |-> pw.err, panic |-> FALSE,
              calls |-> <<"ReadFile">> \o pw.calls]
        ELSE [contents |-> d.val, err |-> d.err, panic |-> d.panic,
              calls |-> <<"ReadFile">> \o pw.calls]

\* v.Read()
Read(v, kr, fsys) == loadFromDisk(v, kr, fsys)

\* initKeyring(service, user): [kr, err]
initKeyring(kr, service, user, seed) ==
    KeyringSet(kr, service, user, NewVaultPassword(seed))

\* every error of keyring.Get taken for "not found"
SecretNotFoundAnyError(err) == err # Nil

\* the test of keyring.Get's error left out: a secret is always created
SecretNotFoundAlways(err) == TRUE

\* InitKeyring's test of keyring.Get's error
SecretNotFound(err) == err # Nil /\ Contains(err, "secret not found in keyring")

\* InitKeyring's test of loadFromDisk's error
FileNotFound(err) ==
    err # Nil /\ Contains(err, "system cannot find the file specified")

\* InitKeyring(i): [v, err, panic, kr, fs, calls, key]
\* key is the key of the file it wrote, <<>> when it wrote none.
InitKeyring(i, kr, fsys, seed) ==
    LET v0 == NewVault(i.Service, i.User, i.Filename, "")
        v1 == [v0 EXCEPT !.keyring = TRUE]
        g == KeyringGet(kr, v0.service, v0.user)
        s == initKeyring(kr, v0.service, v0.user, seed)
        create == SecretNotFound(g.err)
        kr1 == IF create THEN s.kr ELSE kr
        c1 == <<"keyring.Get">> \o (IF create THEN <<"keyring.Set">> ELSE <<>>)
        l == loadFromDisk(v1, kr1, fsys)
        w == Write(v1, <<>>, kr1, fsys)
    IN  IF g.err # Nil /\ ~create
        THEN [v |-> v0, err |-> g.err, panic |-> FALSE, kr |-> kr,
              fs |-> fsys, calls |-> c1, key |-> <<>>]
        ELSE IF create /\ s.err # Nil
        THEN [v |-> v0, err |-> s.err, panic |-> FALSE, kr |-> kr1,
              fs |-> fsys, calls |-> c1, key |-> <<>>]
        ELSE IF l.panic
        THEN [v |-> v1, err |-> Nil, panic |-> TRUE, kr |-> kr1,
              fs |-> fsys, calls |-> c1 \o l.calls, key |-> <<>>]
        ELSE IF FileNotFound(l.err)
        THEN [v |-> v1, err |-> w.err, panic |-> FALSE, kr |-> kr1,
              fs |-> w.fs, calls |-> c1 \o l.calls \o w.calls, key |-> w.key]
        ELSE [v |-> v1, err |-> l.err, panic |-> FALSE, kr |-> kr1,
              fs |-> fsys, calls |-> c1 \o l.calls, key |-> <<>>]

\* InitEnvVar that bootstraps the file the way InitKeyring does
InitEnvVarCreatingFile(i, kr, fsys, seed) ==
    LET v == NewVault("", "", i.Filename, i.PasswordEnvVar)
        pw == getPassword(v, kr)
        l == loadFromDisk(v, kr, fsys)
        w == Write(v, <<>>, kr, fsys)
    IN  IF pw.err # Nil \/ l.panic \/ l.err = Nil
        THEN [v |-> v, err |-> pw.err, panic |-> FALSE, kr |-> kr, fs |-> fsys,
              calls |-> pw.calls, key |-> <<>>]
        ELSE [v |-> v, err |-> w.err, panic |-> FALSE, kr |-> kr, fs |-> w.fs,
              calls |-> pw.calls \o l.calls \o w.calls, key |-> w.key]

\* InitEnvVar(i): same shape as InitKeyring
InitEnvVar(i, kr, fsys, seed) ==
    LET v == NewVault("", "", i.Filename, i.PasswordEnvVar)
        pw == getPassword(v, kr)
    IN  [v |-> v, err |-> pw.err, panic |-> FALSE, kr |-> kr, fs |-> fsys,
         calls |-> pw.calls, key |-> <<>>]

\* InitSmart with its test inverted
InitSmartInverted(i, kr, fsys, seed) ==
    IF i.PasswordEnvVar = ""
    THEN InitEnvVar(i, kr, fsys, seed)
    ELSE InitKeyring(i, kr, fsys, seed)

\* InitSmart(i)
InitSmart(i, kr, fsys, seed) ==
    IF i.PasswordEnvVar # ""
    THEN InitEnvVar(i, kr, fsys, seed)
    ELSE InitKeyring(i, kr, fsys, seed)

(***************************************************************************)
(* The inputs and the environment the calls are made in                    *)
(***************************************************************************)
Services == {"ugglyc"}
Users == {"browser"}
EnvNames == {"UGGSECP"}
Filenames == {"cookies.txt"}

VaultInputs ==
    [Service : Services, User : Users,
     PasswordEnvVar : EnvNames \cup {""}, Filename : Filenames]

Seeds == 0..MaxSeed

KeyA == Bytes("0123456789abcdef0123456789abcdef")
KeyB == Bytes("ZYXWVUTSRQPONMLKJIHGFEDCBA987654")
Key16 == Bytes("0123456789abcdef")
Key10 == Bytes("0123456789")

\* what the caller may put in the environment variable (<<>> unsets it)
EnvValues == {<<>>, KeyA, KeyB, Key16, Key10}

\* what another program may store in the keyring slot
ForeignSecrets == {KeyB}

Hello == Bytes("hello")
X == Bytes("x")
Long == Bytes("ovaltine") \o <<195, 169, 0, 255>> \o Bytes("ovaltine")

Plaintexts == {<<>>, X, Hello, Long}

\* the files found at start: none, one that cannot be opened, one that is
\* not base64, one that is base64 written by somebody else
\* the processes that use the vault file and the keyring slot side by side
Procs == {"p1", "p2"}

\* a process outside any call, holding no handle
Idle ==
    [pc |-> "idle", has |-> FALSE, v |-> NewVault("", "", "", ""),
     op |-> "", contents |-> <<>>, key |-> <<>>, data |-> <<>>,
     dirty |-> FALSE, late |-> FALSE, err |-> Nil]

\* nothing written, no initializer returned yet
NoRace == [written |-> FALSE, data |-> <<>>, dirty |-> FALSE, done |-> FALSE]

InitialFiles ==
    {NoFile,
     [kind |-> "denied", data |-> <<>>],
     [kind |-> "file", data |-> Bytes("!!!")],
     [kind |-> "file", data |-> Bytes("aGVsbG8=")]}

NoVault == [set |-> FALSE, v |-> NewVault("", "", "", ""), init |-> "", err |-> Nil]

NoWrite == [set |-> FALSE, v |-> NewVault("", "", "", ""), plain |-> <<>>, key |-> <<>>]

NoCall == [op |-> "", arg |-> <<>>, err |-> Nil, ret |-> <<>>, calls |-> <<>>]

Panic == "panic"

Init ==
    /\ platform \in {"windows", "unix"}
    /\ krMode \in {"ok", "setfails", "down"}
    /\ keyringStore = [slot \in Services \X Users |-> NoSecret]
    /\ env = [n \in EnvNames |-> <<>>]
    /\ fs \in [Filenames -> InitialFiles]
    /\ vault = NoVault
    /\ wrote = NoWrite
    /\ last = NoCall
    /\ crashed = FALSE
    /\ procs = [p \in Procs |-> Idle]
    /\ race = NoRace

(***************************************************************************)
(* The calls                                                               *)
(***************************************************************************)
\* the effect of an initializer that returned r
Initialized(op, init, i, r) ==
    /\ keyringStore' = r.kr
    /\ fs' = r.fs
    /\ crashed' = r.panic
    /\ vault' = IF r.panic THEN vault
                ELSE [set |-> TRUE, v |-> r.v, init |-> init, err |-> r.err]
    /\ wrote' = IF ~r.panic /\ r.err = Nil /\ r.key # <<>>
                THEN [set |-> TRUE, v |-> r.v, plain |-> <<>>, key |-> r.key]
                ELSE wrote
    /\ last' = [op |-> op, arg |-> i,
                err |-> IF r.panic THEN Panic ELSE r.err,
                ret |-> <<>>, calls |-> r.calls]
    /\ UNCHANGED <<platform, krMode, env>>

DoInitKeyring(i, seed) ==
    /\ ~crashed
    /\ Initialized("InitKeyring", "InitKeyring", i,
                   InitKeyring(i, keyringStore, fs, seed))

DoInitEnvVar(i) ==
    /\ ~crashed
    /\ Initialized("InitEnvVar", "InitEnvVar", i,
                   InitEnvVar(i, keyringStore, fs, 0))

DoInitSmart(i, seed) ==
    /\ ~crashed
    /\ Initialized("InitSmart",
                   IF i.PasswordEnvVar # "" THEN "InitEnvVar" ELSE "InitKeyring",
                   i, InitSmart(i, keyringStore, fs, seed))

DoWrite(contents) ==
    /\ ~crashed
    /\ vault.set
    /\ LET r == Write(vault.v, contents, keyringStore, fs)
       IN  /\ fs' = r.fs
           /\ wrote' = IF r.err = Nil
                       THEN [set |-> TRUE, v |-> vault.v, plain |-> contents,
                             key |-> r.key]
                       ELSE wrote
           /\ last' = [op |-> "Write", arg |-> contents, err |-> r.err,
                       ret |-> <<>>, calls |-> r.calls]
    /\ UNCHANGED <<platform, krMode, keyringStore, env, vault, crashed>>

DoRead ==
    /\ ~crashed
    /\ vault.set
    /\ LET r == Read(vault.v, keyringStore, fs)
       IN  /\ crashed' = r.panic
           /\ last' = [op |-> "Read", arg |-> <<>>,
                       err |-> IF r.panic THEN Panic ELSE r.err,
                       ret |-> r.contents, calls |-> r.calls]
    /\ UNCHANGED <<platform, krMode, keyringStore, env, fs, vault, wrote>>

\* the caller (or its shell) sets or unsets the environment variable
SetEnv(name, value) ==
    /\ ~crashed
    /\ env[name] # value
    /\ env' = [env EXCEPT ![name] = value]
    /\ last' = [op |-> "SetEnv", arg |-> value, err |-> Nil, ret |-> <<>>,
                calls |-> <<>>]
    /\ UNCHANGED <<platform, krMode, keyringStore, fs, vault, wrote, crashed>>

\* another program replaces the secret in the keyring slot
RotateSecret(slot, secret) ==
    /\ ~crashed
    /\ krMode = "ok"
    /\ keyringStore[slot] # [set |-> TRUE, secret |-> secret]
    /\ keyringStore' = [keyringStore EXCEPT ![slot] = [set |-> TRUE, secret |-> secret]]
    /\ last' = [op |-> "RotateSecret", arg |-> secret, err |-> Nil, ret |-> <<>>,
                calls |-> <<>>]
    /\ UNCHANGED <<platform, krMode, env, fs, vault, wrote, crashed>>

Call ==
    \/ \E i \in VaultInputs, seed \in Seeds : DoInitKeyring(i, seed)
    \/ \E i \in VaultInputs : DoInitEnvVar(i)
    \/ \E i \in VaultInputs, seed \in Seeds : DoInitSmart(i, seed)
    \/ \E contents \in Plaintexts : DoWrite(contents)
    \/ DoRead
    \/ \E name \in EnvNames, value \in EnvValues : SetEnv(name, value)
    \/ \E slot \in Services \X Users, secret \in ForeignSecrets :
          RotateSecret(slot, secret)

Next == Call /\ UNCHANGED <<procs, race>>

Spec == Init /\ [][Next]_vars

(***************************************************************************)
(* Processes side by side.  Two processes call the package against one     *)
(* file and one keyring slot; nothing in the package locks either, so the  *)
(* I/O calls of one call interleave with those of the other.  Each step    *)
(* below is one I/O call, with the computation that follows it.            *)
(***************************************************************************)
\* the plaintexts the concurrent Writes carry: ciphertexts of 4 and 28 bytes
ConcurrentPlaintexts == {X, Long}

\* the requests the processes make: the sample's, with and without UGGSECP
ConcurrentInputs == VaultInputs

InitConcurrent ==
    /\ platform \in {"windows", "unix"}
    /\ krMode = "ok"
    /\ keyringStore = [slot \in Services \X Users |-> NoSecret]
    /\ env = [n \in EnvNames |-> KeyA]
    /\ fs \in [Filenames -> InitialFiles]
    /\ vault = NoVault
    /\ wrote = NoWrite
    /\ last = NoCall
    /\ crashed = FALSE
    /\ procs = [p \in Procs |-> Idle]
    /\ race = NoRace

\* the call of process p returns handle v (when it is an initializer) and err
Return(p, v, err) ==
    [Idle EXCEPT !.has = procs[p].has \/ procs[p].op # "Write",
                 !.v = v, !.err = err]

\* a file-write step of p: the other descriptors open for writing are now
\* positioned inside content that is not theirs
Dirtied(p, q) ==
    IF q # p /\ procs[q].pc = "w_write"
    THEN [procs[q] EXCEPT !.dirty = TRUE] ELSE procs[q]

\* InitEnvVar, whole: it reads the environment and nothing else
PInitEnvVar(p, i) ==
    /\ procs[p].pc = "idle"
    /\ i.PasswordEnvVar # ""
    /\ LET r == InitEnvVar(i, keyringStore, fs, 0)
       IN  procs' = [procs EXCEPT ![p] =
                        [Idle EXCEPT !.has = TRUE, !.v = r.v, !.err = r.err]]
    /\ UNCHANGED <<platform, krMode, keyringStore, env, fs, vault, wrote, last,
                   crashed, race>>

\* InitKeyring up to keyring.Get and the test of its error
PKeyringGet(p, i) ==
    /\ procs[p].pc = "idle"
    /\ LET v0 == NewVault(i.Service, i.User, i.Filename, "")
           g == KeyringGet(keyringStore, v0.service, v0.user)
       IN  procs' = [procs EXCEPT ![p] =
              IF g.err # Nil /\ ~SecretNotFound(g.err)
              THEN [Idle EXCEPT !.has = TRUE, !.v = v0, !.err = g.err]
              ELSE [Idle EXCEPT !.v = v0, !.op = "InitKeyring",
                                !.late = race.done,
                                !.pc = IF SecretNotFound(g.err)
                                       THEN "ik_set" ELSE "ik_file"]]
    /\ UNCHANGED <<platform, krMode, keyringStore, env, fs, vault, wrote, last,
                   crashed, race>>

\* initKeyring: a new password is generated and stored by keyring.Set
PKeyringSet(p, seed) ==
    /\ procs[p].pc = "ik_set"
    /\ LET s == initKeyring(keyringStore, procs[p].v.service, procs[p].v.user,
                            seed)
       IN  /\ keyringStore' = s.kr
           /\ procs' = [procs EXCEPT ![p] =
                 IF s.err # Nil THEN Return(p, procs[p].v, s.err)
                 ELSE [procs[p] EXCEPT !.pc = "ik_file"]]
    /\ UNCHANGED <<platform, krMode, env, fs, vault, wrote, last, crashed,
                   race>>

\* v.keyring = true and loadFromDisk; a missing file sends InitKeyring into
\* v.Write(""), any other outcome is returned
PLoadFromDisk(p) ==
    /\ procs[p].pc = "ik_file"
    /\ LET v1 == [procs[p].v EXCEPT !.keyring = TRUE]
           l == loadFromDisk(v1, keyringStore, fs)
       IN  /\ procs' = [procs EXCEPT ![p] =
                 IF l.panic THEN [Idle EXCEPT !.pc = "dead"]
                 ELSE IF FileNotFound(l.err)
                 THEN [procs[p] EXCEPT !.v = v1, !.pc = "w_resolve",
                                       !.contents = <<>>]
                 ELSE Return(p, v1, l.err)]
           /\ race' = [race EXCEPT !.done = @ \/ (~l.panic /\ l.err = Nil)]
    /\ UNCHANGED <<platform, krMode, keyringStore, env, fs, vault, wrote, last,
                   crashed>>

\* the caller calls v.Write(contents) on the handle it holds
PWrite(p, contents) ==
    /\ procs[p].pc = "idle"
    /\ procs[p].has
    /\ procs' = [procs EXCEPT ![p] =
                    [Idle EXCEPT !.has = TRUE, !.v = procs[p].v,
                                 !.op = "Write", !.pc = "w_resolve",
                                 !.contents = contents]]
    /\ UNCHANGED <<platform, krMode, keyringStore, env, fs, vault, wrote, last,
                   crashed, race>>

\* Write: v.getPassword()
PGetPassword(p) ==
    /\ procs[p].pc = "w_resolve"
    /\ LET pw == getPassword(procs[p].v, keyringStore)
       IN  procs' = [procs EXCEPT ![p] =
              IF pw.err # Nil THEN Return(p, procs[p].v, pw.err)
              ELSE [procs[p] EXCEPT !.pc = "w_encrypt", !.key = pw.password]]
    /\ UNCHANGED <<platform, krMode, keyringStore, env, fs, vault, wrote, last,
                   crashed, race>>

\* Write: encrypt(contents, password)
PEncrypt(p) ==
    /\ procs[p].pc = "w_encrypt"
    /\ LET encrypted == encrypt(procs[p].contents, procs[p].key)
       IN  procs' = [procs EXCEPT ![p] =
              IF encrypted.err # Nil
              THEN Return(p, procs[p].v, encrypted.err)
              ELSE [procs[p] EXCEPT !.pc = "w_open", !.key = <<>>,
                                    !.contents = <<>>,
                                    !.data = encrypted.val]]
    /\ UNCHANGED <<platform, krMode, keyringStore, env, fs, vault, wrote, last,
                   crashed, race>>

\* Write: ioutil.WriteFile opens the file, creating or truncating it
POpen(p) ==
    /\ procs[p].pc = "w_open"
    /\ LET o == OpenTrunc(fs, procs[p].v.filename)
       IN  /\ fs' = o.fs
           /\ procs' = [procs EXCEPT ![p] =
                 IF o.err # Nil THEN Return(p, procs[p].v, o.err)
                 ELSE [procs[p] EXCEPT !.pc = "w_write", !.dirty = FALSE]]
    /\ UNCHANGED <<platform, krMode, keyringStore, env, vault, wrote, last,
                   crashed, race>>

\* Write: ioutil.WriteFile writes the data and closes; Write returns nil
PWriteData(p) ==
    /\ procs[p].pc = "w_write"
    /\ fs' = WriteAt(fs, procs[p].v.filename, procs[p].data)
    /\ procs' = [q \in Procs |->
                    IF q = p THEN Return(p, procs[p].v, Nil)
                    ELSE Dirtied(p, q)]
    /\ race' = [written |-> TRUE, data |-> procs[p].data,
                dirty |-> procs[p].dirty,
                done |-> race.done \/ procs[p].op = "InitKeyring"]
    /\ UNCHANGED <<platform, krMode, keyringStore, env, vault, wrote, last,
                   crashed>>

NextConcurrent ==
    \/ \E p \in Procs, i \in ConcurrentInputs : PInitEnvVar(p, i)
    \/ \E p \in Procs, i \in ConcurrentInputs : PKeyringGet(p, i)
    \/ \E p \in Procs, seed \in Seeds : PKeyringSet(p, seed)
    \/ \E p \in Procs : PLoadFromDisk(p)
    \/ \E p \in Procs, contents \in ConcurrentPlaintexts : PWrite(p, contents)
    \/ \E p \in Procs : PGetPassword(p)
    \/ \E p \in Procs : PEncrypt(p)
    \/ \E p \in Procs : POpen(p)
    \/ \E p \in Procs : PWriteData(p)

SpecConcurrent == InitConcurrent /\ [][NextConcurrent]_vars

(***************************************************************************)
(* What the properties below read off a state                              *)
(***************************************************************************)
\* the slot and the file of the caller's handle
Slot == <<vault.v.service, vault.v.user>>

TheFile == fs[vault.v.filename]

\* the key a call on the caller's handle would resolve now
ResolvedKey ==
    IF vault.v.keyring THEN keyringStore[Slot].secret
    ELSE Getenv(vault.v.passwordEnvVar)

Called(name) == \E k \in 1..Len(last.calls) : last.calls[k] = name

CalledNext(name) == \E k \in 1..Len(last'.calls) : last'.calls[k] = name

CipherError(err) == Contains(err, "crypto/aes: invalid key size")

(***************************************************************************)
(* C1  Round trip.  For a 32-byte key K and a plaintext P that a Write     *)
(* put in the file, decrypt(encrypt(P, K), K) is P with no error; and a    *)
(* Read on the same handle, while the file is that Write's and the key     *)
(* resolved is still K, returns exactly P with no error.                   *)
(***************************************************************************)
C1_RoundTrip ==
    /\ (wrote.set /\ Len(wrote.key) = keySize) =>
          decrypt(encrypt(wrote.plain, wrote.key).val, wrote.key)
             = [val |-> wrote.plain, err |-> Nil, panic |-> FALSE]
    /\ (/\ last.op = "Read"
        /\ wrote.set
        /\ wrote.v = vault.v
        /\ Len(wrote.key) = keySize
        /\ ResolvedKey = wrote.key) =>
          (last.err = Nil /\ last.ret = wrote.plain)

\* a Read returned the two-block plaintext, with its non-ASCII bytes
C1_Witness ==
    /\ last.op = "Read"
    /\ wrote.set
    /\ wrote.v = vault.v
    /\ wrote.plain = Long
    /\ Len(wrote.key) = keySize
    /\ ResolvedKey = wrote.key
    /\ last.err = Nil
    /\ last.ret = Long

(***************************************************************************)
(* C2  Initialization is idempotent.  An InitKeyring call with the         *)
(* service, user and filename of an earlier InitKeyring call, made when    *)
(* the keyring slot holds a secret and the file is present and not empty,  *)
(* calls neither keyring.Set nor WriteFile and leaves the keyring and the  *)
(* file as they were.                                                      *)
(***************************************************************************)
C2_InitIdempotent ==
    [][(/\ last'.op = "InitKeyring"
        /\ vault.set
        /\ vault.init = "InitKeyring"
        /\ vault.v.service = last'.arg.Service
        /\ vault.v.user = last'.arg.User
        /\ vault.v.filename = last'.arg.Filename
        /\ keyringStore[Slot].set
        /\ TheFile.kind = "file"
        /\ TheFile.data # <<>>)
       => (/\ keyringStore' = keyringStore
           /\ fs' = fs
           /\ ~CalledNext("keyring.Set")
           /\ ~CalledNext("WriteFile"))]_vars

\* InitKeyring ran again on a file that a keyring handle had written "hello" to
C2_Witness ==
    /\ last.op = "InitKeyring"
    /\ last.err = Nil
    /\ last.calls = <<"keyring.Get", "ReadFile", "keyring.Get">>
    /\ wrote.set
    /\ wrote.v = vault.v
    /\ wrote.v.keyring
    /\ wrote.plain = Hello
    /\ TheFile.kind = "file"
    /\ TheFile.data # <<>>

(***************************************************************************)
(* C3  Scenario A.  With a working keyring, no entry in the slot and no    *)
(* file, InitKeyring stores a secret, creates the file with empty content  *)
(* and returns success; on a handle so obtained, Write("hello") followed   *)
(* by Read returns "hello".                                                *)
(***************************************************************************)
C3_ScenarioA ==
    [][/\ (/\ last'.op = "InitKeyring"
           /\ krMode = "ok"
           /\ ~keyringStore[<<last'.arg.Service, last'.arg.User>>].set
           /\ fs[last'.arg.Filename].kind = "absent")
          => (/\ keyringStore'[<<last'.arg.Service, last'.arg.User>>].set
              /\ fs'[last'.arg.Filename] = [kind |-> "file", data |-> <<>>]
              /\ last'.err = Nil
              /\ vault'.set
              /\ vault'.v.keyring)
       /\ (/\ vault.set
           /\ vault.init = "InitKeyring"
           /\ vault.err = Nil
           /\ last.op = "Write"
           /\ last.arg = Hello
           /\ last.err = Nil
           /\ last'.op = "Read")
          => (last'.err = Nil /\ last'.ret = Hello)]_vars

(***************************************************************************)
(* C4  Key-size sensitivity.  With a resolved key whose length is not 32   *)
(* bytes, a Write, and a Read that gets as far as decrypt (the file can    *)
(* be read), fails with a cipher-construction error, and WriteFile is not  *)
(* called.                                                                 *)
(***************************************************************************)
C4_KeySizeSensitivity ==
    (/\ vault.set
     /\ last.op \in {"Write", "Read"}
     /\ ResolvedKey # <<>>
     /\ Len(ResolvedKey) # keySize
     /\ (last.op = "Read" => TheFile.kind = "file"))
    => (CipherError(last.err) /\ ~Called("WriteFile"))

(***************************************************************************)
(* C5  Scenario C.  As stated: with the env-var backend and a 10-byte      *)
(* value, every Write and every Read fails with a cipher-construction      *)
(* error and leaves the file as it was.                                    *)
(***************************************************************************)
TenByteEnv ==
    vault.set /\ ~vault.v.keyring /\ Len(Getenv(vault.v.passwordEnvVar)) = 10

C5_ScenarioC_AsStated ==
    [][(TenByteEnv /\ last'.op \in {"Write", "Read"})
       => (CipherError(last'.err) /\ fs' = fs)]_vars

(***************************************************************************)
(* C5, amended.  With the env-var backend and a 10-byte value, every       *)
(* Write fails with a cipher-construction error; every Read fails, with a  *)
(* cipher-construction error when the file can be read and with the        *)
(* file's open error when it cannot; the file is left as it was.           *)
(***************************************************************************)
C5_ScenarioC ==
    [][(TenByteEnv /\ last'.op \in {"Write", "Read"})
       => (/\ fs' = fs
           /\ IF last'.op = "Write" \/ TheFile.kind = "file"
              THEN CipherError(last'.err)
              ELSE last'.err = OpenError(vault.v.filename, TheFile.kind))]_vars

\* a Read with a 10-byte value and no file: the error is the open error
C5_Witness ==
    /\ TenByteEnv
    /\ last.op = "Read"
    /\ TheFile.kind = "absent"
    /\ last.err = OpenError(vault.v.filename, "absent")

(***************************************************************************)
(* C6  Every error is returned.  A Read of a file whose content is not     *)
(* valid base64 returns an error and does not abort the caller.            *)
(***************************************************************************)
C6_DecodeErrorReturned ==
    (/\ vault.set
     /\ last.op = "Read"
     /\ TheFile.kind = "file"
     /\ DecodeString(TheFile.data).err # Nil)
    => (~crashed /\ last.err \notin {Nil, Panic})

(***************************************************************************)
(* C7  Scenario B.  InitEnvVar with the variable unset or empty returns a  *)
(* no-password-found error together with an env-var handle; once the       *)
(* variable holds a 32-byte value, Write("x") on that handle succeeds      *)
(* (the file being writable) and the Read that follows returns "x".        *)
(***************************************************************************)
FromFailedInitEnvVar ==
    vault.set /\ vault.init = "InitEnvVar" /\ vault.err # Nil

C7_ScenarioB ==
    [][/\ (last'.op = "InitEnvVar" /\ Getenv(last'.arg.PasswordEnvVar) = <<>>)
          => (/\ last'.err = "no password found in "
                                \o last'.arg.PasswordEnvVar \o " env var"
              /\ vault'.set
              /\ vault'.v = NewVault("", "", last'.arg.Filename,
                                     last'.arg.PasswordEnvVar))
       /\ (/\ FromFailedInitEnvVar
           /\ Len(Getenv(vault.v.passwordEnvVar)) = keySize
           /\ TheFile.kind # "denied"
           /\ last'.op = "Write"
           /\ last'.arg = X)
          => (/\ last'.err = Nil
              /\ fs'[vault.v.filename].kind = "file")
       /\ (/\ FromFailedInitEnvVar
           /\ Len(Getenv(vault.v.passwordEnvVar)) = keySize
           /\ last.op = "Write"
           /\ last.arg = X
           /\ last.err = Nil
           /\ last'.op = "Read")
          => (last'.err = Nil /\ last'.ret = X)]_vars

\* the handle came with an error, the variable was set, "x" was written and read
C7_Witness ==
    /\ FromFailedInitEnvVar
    /\ vault.v.passwordEnvVar \in EnvNames
    /\ Len(Getenv(vault.v.passwordEnvVar)) = keySize
    /\ wrote.set
    /\ wrote.v = vault.v
    /\ wrote.plain = X
    /\ last.op = "Read"
    /\ last.err = Nil
    /\ last.ret = X

(***************************************************************************)
(* C8  Backend selection.  InitSmart with a non-empty PasswordEnvVar runs  *)
(* the env-var initializer: its only call is Getenv, and the handle it     *)
(* returns resolves keys from that variable, whatever Service and User     *)
(* are; with an empty PasswordEnvVar it runs the keyring initializer,      *)
(* which starts with keyring.Get and reads no environment variable.        *)
(***************************************************************************)
C8_BackendSelection ==
    last.op = "InitSmart" =>
        IF last.arg.PasswordEnvVar # ""
        THEN /\ last.calls = <<"Getenv">>
             /\ vault.set
             /\ ~vault.v.keyring
             /\ vault.v.passwordEnvVar = last.arg.PasswordEnvVar
             /\ vault.v.filename = last.arg.Filename
        ELSE /\ last.calls[1] = "keyring.Get"
             /\ ~Called("Getenv")
             /\ ~crashed =>
                   /\ vault.set
                   /\ vault.v.service = last.arg.Service
                   /\ vault.v.user = last.arg.User
                   /\ vault.v.passwordEnvVar = ""
                   /\ vault.v.filename = last.arg.Filename

\* InitSmart was given both an env-var name and keyring coordinates
C8_Witness ==
    /\ last.op = "InitSmart"
    /\ last.arg.PasswordEnvVar = "UGGSECP"
    /\ last.arg.Service = "ugglyc"
    /\ last.arg.User = "browser"
    /\ last.calls = <<"Getenv">>
    /\ ~vault.v.keyring

(***************************************************************************)
(* C9  Write replaces the whole file.  After a successful Write(c) the     *)
(* file exists and holds exactly encrypt(c, key), the base64 text of the   *)
(* ciphertext, whatever it held before; and a Read right after a           *)
(* successful Write returns that Write's content.                          *)
(***************************************************************************)
C9_WriteReplaces ==
    [][/\ (vault.set /\ last'.op = "Write" /\ last'.err = Nil)
          => fs' = [fs EXCEPT ![vault.v.filename] =
                       [kind |-> "file",
                        data |-> encrypt(last'.arg, ResolvedKey).val]]
       /\ (last.op = "Write" /\ last.err = Nil /\ last'.op = "Read")
          => (last'.err = Nil /\ last'.ret = last.arg)]_vars

\* "x" was written and the file is the four characters of its ciphertext
C9_Witness ==
    /\ vault.set
    /\ last.op = "Write"
    /\ last.err = Nil
    /\ last.arg = X
    /\ TheFile = [kind |-> "file", data |-> encrypt(X, ResolvedKey).val]
    /\ Len(TheFile.data) = 4

(***************************************************************************)
(* C10  No key caching.  A Read made when the key resolved is a 32-byte    *)
(* key other than the one the file was written under returns without       *)
(* error, and what it returns is the file decrypted under the key          *)
(* resolved now: encrypting it again under that key gives the file.        *)
(***************************************************************************)
ReadAfterRotation ==
    /\ last.op = "Read"
    /\ wrote.set
    /\ wrote.v = vault.v
    /\ Len(ResolvedKey) = keySize
    /\ ResolvedKey # wrote.key

C10_NoKeyCaching ==
    ReadAfterRotation
    => (/\ last.err = Nil
        /\ ~crashed
        /\ encrypt(last.ret, ResolvedKey).val = TheFile.data)

\* the Read under the new key returned something else than was written
C10_Witness ==
    /\ ReadAfterRotation
    /\ Len(wrote.key) = keySize
    /\ last.err = Nil
    /\ last.ret # wrote.plain

(***************************************************************************)
(* C11  No automatic fallback.  When keyring.Get fails with an error       *)
(* other than not-found, InitKeyring, and InitSmart with an empty          *)
(* PasswordEnvVar, return that error having called nothing but             *)
(* keyring.Get: no environment variable is read, keyring.Set is not        *)
(* called, the file is neither read nor written, and the keyring and the   *)
(* file are as they were.                                                  *)
(***************************************************************************)
KeyringInitNext ==
    \/ last'.op = "InitKeyring"
    \/ last'.op = "InitSmart" /\ last'.arg.PasswordEnvVar = ""

C11_NoAutomaticFallback ==
    [][(KeyringInitNext /\ krMode = "down")
       => (/\ last'.err = ErrBackend
           /\ last'.calls = <<"keyring.Get">>
           /\ keyringStore' = keyringStore
           /\ fs' = fs
           /\ vault'.set
           /\ ~vault'.v.keyring)]_vars

\* InitSmart gave up on the keyring although the variable held a usable key
C11_Witness ==
    /\ last.op = "InitSmart"
    /\ last.arg.PasswordEnvVar = ""
    /\ krMode = "down"
    /\ last.err = ErrBackend
    /\ Len(env["UGGSECP"]) = keySize
    /\ last.calls = <<"keyring.Get">>

(***************************************************************************)
(* C12  InitEnvVar does not touch the file.  Whether the variable is set   *)
(* or not, InitEnvVar (and InitSmart with a PasswordEnvVar) calls only     *)
(* Getenv and leaves the file as it was, and its error says nothing of     *)
(* the file; with an env-var handle a missing file shows only in the       *)
(* error of a later Read.                                                  *)
(***************************************************************************)
EnvInitNext ==
    \/ last'.op = "InitEnvVar"
    \/ last'.op = "InitSmart" /\ last'.arg.PasswordEnvVar # ""

C12_InitEnvVarLeavesFile ==
    [][/\ EnvInitNext
          => (/\ fs' = fs
              /\ last'.calls = <<"Getenv">>
              /\ last'.err = IF Getenv(last'.arg.PasswordEnvVar) = <<>>
                             THEN "no password found in "
                                     \o last'.arg.PasswordEnvVar \o " env var"
                             ELSE Nil)
       /\ (/\ vault.set
           /\ ~vault.v.keyring
           /\ TheFile.kind = "absent"
           /\ last'.op = "Read")
          => last'.err = OpenError(vault.v.filename, "absent")]_vars

\* InitEnvVar succeeded although there is no file
C12_Witness ==
    /\ last.op = "InitEnvVar"
    /\ last.err = Nil
    /\ vault.set
    /\ TheFile.kind = "absent"
    /\ Len(ResolvedKey) = keySize

(***************************************************************************)
(* C13  The keyring is mutated only on InitKeyring's not-found path.  A    *)
(* call of the package calls keyring.Set exactly when it is the keyring    *)
(* initializer and its keyring.Get reports "secret not found"; every       *)
(* other call leaves the keyring as it was.                                *)
(***************************************************************************)
PackageCallNext ==
    last'.op \in {"InitKeyring", "InitSmart", "InitEnvVar", "Read", "Write"}

C13_KeyringMutatedOnlyOnNotFound ==
    [][PackageCallNext
       => (/\ CalledNext("keyring.Set")
              <=> (/\ KeyringInitNext
                   /\ KeyringGet(keyringStore, last'.arg.Service,
                                 last'.arg.User).err = ErrNotFound)
           /\ ~CalledNext("keyring.Set") => keyringStore' = keyringStore)]_vars

\* InitKeyring found no secret and stored one
C13_Witness ==
    /\ last.op = "InitKeyring"
    /\ Called("keyring.Set")
    /\ keyringStore[<<last.arg.Service, last.arg.User>>].set
    /\ Len(keyringStore[<<last.arg.Service, last.arg.User>>].secret) = keySize

(***************************************************************************)
(* C15  The backend of a handle is fixed.  No Read or Write, succeeding    *)
(* or failing, changes the handle: a keyring handle resolves its key by    *)
(* keyring.Get and never by Getenv, an env-var handle by Getenv and never  *)
(* by keyring.Get, under the service, user and variable name the           *)
(* initializer stored, and only the handle's file is touched.              *)
(***************************************************************************)
C15_BackendFixed ==
    [][(vault.set /\ last'.op \in {"Read", "Write"})
       => (/\ vault' = vault
           /\ CalledNext("keyring.Get") => vault.v.keyring
           /\ CalledNext("Getenv") => ~vault.v.keyring
           /\ last'.op = "Write"
              => (CalledNext("keyring.Get") \/ CalledNext("Getenv"))
           /\ (last'.op = "Write" /\ last'.err = Nil)
              => wrote'.key = ResolvedKey
           /\ \A n \in Filenames \ {vault.v.filename} : fs'[n] = fs[n])]_vars

\* a Write on a keyring handle failed, and the handle still is a keyring handle
C15_Witness ==
    /\ vault.set
    /\ vault.v.keyring
    /\ last.op = "Write"
    /\ last.err # Nil
    /\ Called("keyring.Get")
    /\ ~Called("Getenv")

(***************************************************************************)
(* C16  The generated key.  A key freshly stored by the keyring            *)
(* initializer has exactly keySize (32) characters, each from the          *)
(* 62-symbol alphabet [a-zA-Z0-9], every one of the 62 symbols being a     *)
(* value the generator can put at a position, and is a valid cipher key.   *)
(***************************************************************************)
Alphabet62 ==
    {ByteOf(CharAt(Lower, j)) : j \in 1..Len(Lower)}
        \cup {ByteOf(CharAt(Upper, j)) : j \in 1..Len(Upper)}
        \cup {ByteOf(CharAt(Digits, j)) : j \in 1..Len(Digits)}

\* the values of letterRunes[rand.Intn(len(letterRunes))]
RuneChoices == {letterBytes[k + 1] : k \in 0..(Len(letterBytes) - 1)}

FreshKeyStored ==
    /\ last.op \in {"InitKeyring", "InitSmart"}
    /\ Called("keyring.Set")
    /\ keyringStore[<<last.arg.Service, last.arg.User>>].set

C16_GeneratedKey ==
    FreshKeyStored
    => LET key == keyringStore[<<last.arg.Service, last.arg.User>>].secret
       IN  /\ Len(key) = keySize
           /\ \A j \in 1..Len(key) : key[j] \in Alphabet62
           /\ NewCipher(key).err = Nil
           /\ Cardinality(Alphabet62) = 62
           /\ RuneChoices = Alphabet62

(***************************************************************************)
(* C17  Determinism.  The file left by the last successful write of        *)
(* plaintext P under key K, after whatever calls and over whatever         *)
(* content, is byte for byte what encrypt(P, K), called again now,         *)
(* returns, and what one write of it leaves in a run that starts from any  *)
(* other writable file.                                                    *)
(***************************************************************************)
C17_Determinism ==
    wrote.set
    => LET again == encrypt(wrote.plain, wrote.key)
       IN  /\ again.err = Nil
           /\ fs[wrote.v.filename] = [kind |-> "file", data |-> again.val]
           /\ \A f0 \in InitialFiles :
                 f0.kind # "denied"
                 => WriteFile([n \in Filenames |-> f0], wrote.v.filename,
                              again.val).fs[wrote.v.filename]
                       = fs[wrote.v.filename]

\* two blocks were written under one key, and calls were made since
C17_Witness ==
    /\ wrote.set
    /\ wrote.plain = Long
    /\ wrote.key = KeyB
    /\ last.op = "Read"
    /\ last.ret = Long
    /\ fs[wrote.v.filename].data = encrypt(Long, KeyB).val

(***************************************************************************)
(* C19  A handle returned with a keyring error.  The handle InitKeyring    *)
(* returns with the error of keyring.Get or keyring.Set has the keyring    *)
(* flag unset and an empty variable name: every Write on it fails with     *)
(* the no-password-found error having called only Getenv, every Read on    *)
(* it fails, and neither calls keyring.Get or keyring.Set nor changes the  *)
(* keyring.  The handle returned with a file error alone has the keyring   *)
(* flag set.                                                               *)
(***************************************************************************)
KeyringErrorHandle ==
    vault.set /\ vault.init = "InitKeyring" /\ vault.err = ErrBackend

C19_KeyringErrorHandle ==
    [][/\ (KeyringInitNext /\ last'.err = ErrBackend)
          => (~vault'.v.keyring /\ vault'.v.passwordEnvVar = "")
       /\ (KeyringErrorHandle /\ last'.op = "Write")
          => (/\ last'.err = "no password found in  env var"
              /\ last'.calls = <<"Getenv">>
              /\ fs' = fs
              /\ keyringStore' = keyringStore)
       /\ (KeyringErrorHandle /\ last'.op = "Read")
          => (/\ last'.err \notin {Nil, Panic}
              /\ ~CalledNext("keyring.Get")
              /\ ~CalledNext("keyring.Set")
              /\ keyringStore' = keyringStore)
       /\ (/\ KeyringInitNext
           /\ \E kind \in {"absent", "denied"} :
                 last'.err = OpenError(last'.arg.Filename, kind))
          => vault'.v.keyring]_vars

\* keyring.Set failed; the Write on the handle did not look at UGGSECP
C19_Witness ==
    /\ KeyringErrorHandle
    /\ krMode = "setfails"
    /\ last.op = "Write"
    /\ last.err = "no password found in  env var"
    /\ Len(env["UGGSECP"]) = keySize
    /\ TheFile.kind = "absent"

(***************************************************************************)
(* C20  Read observes, a failed Write does nothing.  No Read, succeeding   *)
(* or failing, changes the file, the keyring or the environment; a Write   *)
(* that returns an error leaves the file as it was, neither created nor    *)
(* changed, and an error of key resolution or of cipher construction is    *)
(* returned before WriteFile is called.                                    *)
(***************************************************************************)
C20_ReadObservesFailedWriteNoOp ==
    [][/\ last'.op = "Read"
          => (fs' = fs /\ keyringStore' = keyringStore /\ env' = env)
       /\ (last'.op = "Write" /\ last'.err # Nil)
          => (/\ fs' = fs
              /\ keyringStore' = keyringStore
              /\ env' = env
              /\ wrote' = wrote)
       /\ (/\ last'.op = "Write"
           /\ \/ CipherError(last'.err)
              \/ Contains(last'.err, "no password found")
              \/ last'.err = ErrBackend)
          => ~CalledNext("WriteFile")]_vars

\* a Write failed on the key's size and the missing file was not created
C20_Witness ==
    /\ last.op = "Write"
    /\ CipherError(last.err)
    /\ vault.set
    /\ TheFile.kind = "absent"

(***************************************************************************)
(* C14  Concurrent writers, as stated.  When no process is inside a call,  *)
(* every Write that reached the file has returned nil, and the file holds  *)
(* exactly the ciphertext of the Write whose file-write step came last.    *)
(***************************************************************************)
Quiescent == \A p \in Procs : procs[p].pc \in {"idle", "dead"}

SharedFile == fs[CHOOSE n \in Filenames : TRUE]

C14_LastWriterWins_AsStated ==
    (Quiescent /\ race.written)
    => SharedFile = [kind |-> "file", data |-> race.data]

(***************************************************************************)
(* C14  Concurrent writers.  No Write detects the race: the file-write     *)
(* step returns nil whatever the other process did.  When no process is    *)
(* inside a call, the file begins with the complete ciphertext of the      *)
(* Write whose data was written last, and is exactly that ciphertext       *)
(* unless the other process wrote its data between that Write's opening    *)
(* (truncation) of the file and its writing of the data.                   *)
(***************************************************************************)
C14_LastWriterWins ==
    /\ \A p \in Procs :
          (procs[p].pc = "idle" /\ procs[p].err # Nil)
          => (\/ procs[p].err = OpenError(procs[p].v.filename, "absent")
              \/ procs[p].err = OpenError(procs[p].v.filename, "denied")
              \/ Contains(procs[p].err, "no password found")
              \/ CipherError(procs[p].err))
    /\ (Quiescent /\ race.written)
       => (/\ SharedFile.kind = "file"
           /\ Len(SharedFile.data) >= Len(race.data)
           /\ SubSeq(SharedFile.data, 1, Len(race.data)) = race.data
           /\ ~race.dirty => SharedFile.data = race.data)

\* both Writes are over; the one whose data came last opened the file after
\* the other had written, and the file is its ciphertext of two blocks
C14_Witness ==
    /\ Quiescent
    /\ race.written
    /\ ~race.dirty
    /\ race.data = encrypt(Long, KeyA).val
    /\ SharedFile.data = race.data
    /\ \A p \in Procs : procs[p].has /\ procs[p].err = Nil

(***************************************************************************)
(* C18  The stored secret, as stated.  Once an InitKeyring call has        *)
(* returned success, no step of any call, concurrent InitKeyring calls     *)
(* included, changes the keyring.                                          *)
(***************************************************************************)
C18_SecretStable_AsStated ==
    [][race.done => keyringStore' = keyringStore]_vars

(***************************************************************************)
(* C18  The stored secret.  Once an InitKeyring call has returned          *)
(* success, the secret is never changed by a call that starts afterwards:  *)
(* the only step that changes it then is the keyring.Set of an InitKeyring *)
(* call whose keyring.Get had run, and found no secret, before that        *)
(* return.                                                                 *)
(***************************************************************************)
C18_SecretStable ==
    [][(race.done /\ keyringStore' # keyringStore)
       => \E p \in Procs :
             /\ procs[p].pc = "ik_set"
             /\ ~procs[p].late
             /\ procs'[p].pc = "ik_file"
             /\ \A q \in Procs \ {p} : procs'[q] = procs[q]]_vars

\* an InitKeyring that started after another had returned success is in its
\* file step: it found the secret and stored none
C18_Witness ==
    /\ race.done
    /\ \E p \in Procs :
          /\ procs[p].pc = "ik_file"
          /\ procs[p].late
          /\ keyringStore[<<procs[p].v.service, procs[p].v.user>>].set

====
